---- MODULE Spec2Model ----
(***************************************************************************)
(* Stock ledger and SKU sequence allocation of bizpos                      *)
(* (src/apps/products/models.py, src/apps/products/views.py).              *)
(*                                                                         *)
(* One product is modelled.  The datastore holds the product row (dbQty),  *)
(* its Stock rows (stocks, in creation order: the index of a row is its    *)
(* primary key and its created_at rank) and its StockMovement rows         *)
(* (movements, in insertion order).  A Python Product instance keeps its   *)
(* own copy of the quantity column (selfQty, and tx[t].self for the        *)
(* per-request instances); update_quantity_from_stock compares that copy,  *)
(* not the stored column, with the recomputed total.                       *)
(***************************************************************************)
EXTENDS Integers, Sequences, FiniteSets, TLC

VARIABLES stocks, movements, dbQty, selfQty, nullsFirst, ret, tx,
          seqs, skuRet, proc, products, prodRet

ledgerVars == <<stocks, movements, dbQty, selfQty, nullsFirst, ret>>

productVars == <<products, prodRet>>

skuVars == <<seqs, skuRet, proc, products, prodRet>>

----------------------------------------------------------------------------
(* Bounds *)
MaxQty == 2          \* quantities passed to add_stock; remove_stock and adjust_stock go one higher
MaxCalls == 3        \* number of sequential ledger calls
NumTx == 2           \* concurrent requests
MaxAlloc == 2        \* sequential generate_sku calls are issued while the counters sum to less
NumProcs == 2        \* concurrent generate_sku calls
MaxDirect == 2       \* ledger entries created directly and direct recomputations
MaxSaves == 2        \* Product.save calls
MaxPrice == 2        \* prices passed to Product.clean; they start one below zero

(* Program constants *)
NoExpiry == 0        \* expiry_date = NULL
NoStock == 0         \* StockMovement.stock = NULL
AdjBatchNo == 0      \* the "ADJ-<timestamp>" batch number of adjust_stock

(* Inputs of the calls *)
BatchNos == {1, 2}                  \* batch_no
ExpiryDates == {NoExpiry, 1, 2}     \* expiry_date: none, or a day number

Min(a, b) == IF a < b THEN a ELSE b

----------------------------------------------------------------------------
(* Datastore queries *)

RECURSIVE SumActiveUpTo(_, _)
SumActiveUpTo(stks, n) ==
    IF n = 0 THEN 0
    ELSE SumActiveUpTo(stks, n - 1) + (IF stks[n].active THEN stks[n].qty ELSE 0)

\* self.stock_entries.filter(is_active=True).aggregate(Sum('quantity')) or 0
SumActive(stks) == SumActiveUpTo(stks, Len(stks))

\* ORDER BY expiry_date: whether NULL sorts first (nf) or last depends on the
\* database backend
ExpiryBefore(e1, e2, nf) ==
    IF e1 = e2 THEN FALSE
    ELSE IF e1 = NoExpiry THEN nf
    ELSE IF e2 = NoExpiry THEN ~nf
    ELSE e1 < e2

\* order_by('expiry_date', 'created_at')
FifoBefore(stks, nf, i, j) ==
    \/ ExpiryBefore(stks[i].expiry, stks[j].expiry, nf)
    \/ stks[i].expiry = stks[j].expiry /\ i < j

\* order_by('-expiry_date', '-created_at') instead
MutLifoByExpiry(stks, nf, i, j) == FifoBefore(stks, nf, j, i)

\* order_by('-created_at')
LifoBefore(stks, nf, i, j) == i > j

OrderBefore(stks, nf, fifo, i, j) ==
    IF fifo THEN FifoBefore(stks, nf, i, j) ELSE LifoBefore(stks, nf, i, j)

RECURSIVE SortIds(_, _, _, _)
SortIds(stks, nf, fifo, ids) ==
    IF ids = {} THEN <<>>
    ELSE LET first == CHOOSE i \in ids :
                        \A j \in ids \ {i} : OrderBefore(stks, nf, fifo, i, j)
         IN <<[id |-> first, qty |-> stks[first].qty]>>
              \o SortIds(stks, nf, fifo, ids \ {first})

\* the queryset of remove_stock, evaluated: the eligible Stock instances
\* (primary key and the quantity each instance holds), in consumption order
MutAllEntries(stks, nf, fifo) ==
    SortIds(stks, nf, fifo, {i \in 1..Len(stks) : stks[i].qty > 0})

StockEntries(stks, nf, fifo) ==
    SortIds(stks, nf, fifo,
            {i \in 1..Len(stks) : stks[i].active /\ stks[i].qty > 0})

\* Stock row of the product with this batch_no (0 when there is none)
MutFindNone(stks, b) == NoStock

FindBatch(stks, b) ==
    IF \E i \in 1..Len(stks) : stks[i].batch_no = b
    THEN CHOOSE i \in 1..Len(stks) : stks[i].batch_no = b
    ELSE NoStock

\* stock_entries.filter(is_active=True).order_by('-created_at').first()
RecentActive(stks) ==
    IF \E i \in 1..Len(stks) : stks[i].active
    THEN CHOOSE i \in 1..Len(stks) :
            stks[i].active /\ \A j \in 1..Len(stks) : stks[j].active => j <= i
    ELSE NoStock

----------------------------------------------------------------------------
(* Handlers.  A handler works on d = [stocks, movements, qty, self]: the   *)
(* three stored parts and the quantity held by the Product instance.       *)

Ctx(stks, movs, q, s) == [stocks |-> stks, movements |-> movs, qty |-> q, self |-> s]

\* the test of Product.update_quantity_from_stock: self.quantity != total
MutAlwaysWrite(d) == TRUE

QuantityDiffers(d) == d.self # SumActive(d.stocks)

\* Product.update_quantity_from_stock
UpdateQuantityFromStock(d) ==
    LET total == SumActive(d.stocks)
    IN IF QuantityDiffers(d)
       THEN [d EXCEPT !.qty = total, !.self = total]
       ELSE d

\* StockMovement.clean
MutCleanNoSignCheck(m) == TRUE

MovementClean(m) ==
    /\ ~(m.type = "IN" /\ m.qty <= 0)
    /\ ~(m.type = "OUT" /\ m.qty >= 0)

\* CheckConstraint movement_quantity_not_zero, violated by the insert
MutZeroAllowed(m) == FALSE

ZeroQuantity(m) == m.qty = 0

\* the test of StockMovement.save after self.stock.quantity += self.quantity
MutNegativeAllowed(newQty) == FALSE

NegativeQuantity(newQty) == newQty < 0

\* StockMovement.save; memQty is the quantity held by the Stock instance
\* the movement was created with
\* self.stock.quantity = self.quantity
MutSetQuantity(memQty, q) == q

\* self.stock.quantity += self.quantity
ApplyQuantity(memQty, q) == memQty + q

StockMovementSave(d, m, memQty) ==
    IF ~MovementClean(m) \/ ZeroQuantity(m)
    THEN [ok |-> FALSE, d |-> d]
    ELSE LET d1 == [d EXCEPT !.movements = Append(@, m)]
         IN IF m.stock = NoStock
            THEN [ok |-> TRUE, d |-> UpdateQuantityFromStock(d1)]
            ELSE IF NegativeQuantity(ApplyQuantity(memQty, m.qty))
                 THEN [ok |-> FALSE, d |-> d1]
                 ELSE [ok |-> TRUE,
                       d |-> UpdateQuantityFromStock(
                               [d1 EXCEPT !.stocks[m.stock].qty = ApplyQuantity(memQty, m.qty)])]

\* leaving transaction.atomic() by an exception: stored data is restored,
\* the Product instance keeps what refresh_from_db put in it
MutRollbackKeepsWrites(d0, d1) == d1

Rollback(d0, d1) == [d0 EXCEPT !.self = d1.self]

\* Stock.objects.create(...) / get_or_create(...) creating: Stock.save
StockCreate(d, b, e) ==
    UpdateQuantityFromStock(
        [d EXCEPT !.stocks = Append(@, [batch_no |-> b, qty |-> 0,
                                         active |-> TRUE, expiry |-> e])])

\* Product.add_stock
AddStock(d, q, b, e) ==
    LET found == FindBatch(d.stocks, b)
        d1 == IF found = NoStock THEN StockCreate(d, b, e) ELSE d
        id == IF found = NoStock THEN Len(d1.stocks) ELSE found
        m == [type |-> "IN", qty |-> q, stock |-> id]
        s == StockMovementSave(d1, m, d1.stocks[id].qty)
    IN IF s.ok
       THEN [ok |-> TRUE, d |-> s.d, created |-> <<m>>, stock |-> id]
       ELSE [ok |-> FALSE, d |-> Rollback(d, s.d), created |-> <<>>, stock |-> NoStock]

\* the for loop of Product.remove_stock over the evaluated queryset
MutRemoveAmount(remaining, have) == have

RemoveFromBatch(remaining, have) == Min(remaining, have)

RECURSIVE RemoveLoop(_, _, _, _)
RemoveLoop(d, entries, remaining, created) ==
    IF entries = <<>> \/ remaining <= 0
    THEN [ok |-> TRUE, d |-> d, remaining |-> remaining, created |-> created]
    ELSE LET e == Head(entries)
             r == RemoveFromBatch(remaining, e.qty)
             m == [type |-> "OUT", qty |-> -r, stock |-> e.id]
             s == StockMovementSave(d, m, e.qty)
         IN IF s.ok
            THEN RemoveLoop(s.d, Tail(entries), remaining - r, Append(created, m))
            ELSE [ok |-> FALSE, d |-> s.d, remaining |-> remaining, created |-> created]

\* Product.remove_stock, given the Stock instances its queryset returned
RemoveStockWith(d, q, entries) ==
    IF q <= 0
    THEN [ok |-> FALSE, d |-> d, created |-> <<>>]
    ELSE LET l == RemoveLoop(d, entries, q, <<>>)
         IN IF l.ok /\ l.remaining <= 0
            THEN [ok |-> TRUE, d |-> l.d, created |-> l.created]
            ELSE [ok |-> FALSE, d |-> Rollback(d, l.d), created |-> <<>>]

\* Product.remove_stock as one transaction
MutLifoEntries(stks, nf, fifo) == StockEntries(stks, nf, ~fifo)

RemoveEntries(stks, nf, fifo) == StockEntries(stks, nf, fifo)

RemoveStock(d, q, fifo, nf) ==
    RemoveStockWith(d, q, RemoveEntries(d.stocks, nf, fifo))

\* Product.adjust_stock
AdjustStock(d, target, nf) ==
    LET current == d.self
        difference == target - current
    IN IF difference = 0
       THEN [ok |-> TRUE, d |-> d, created |-> <<>>, movement |-> <<>>]
       ELSE IF difference > 0
       THEN LET recent == RecentActive(d.stocks)
                d1 == IF recent = NoStock THEN StockCreate(d, AdjBatchNo, NoExpiry) ELSE d
                id == IF recent = NoStock THEN Len(d1.stocks) ELSE recent
                m == [type |-> "ADJUST", qty |-> difference, stock |-> id]
                s == StockMovementSave(d1, m, d1.stocks[id].qty)
            IN IF s.ok
               THEN [ok |-> TRUE, d |-> s.d, created |-> <<m>>, movement |-> <<m>>]
               ELSE [ok |-> FALSE, d |-> Rollback(d, s.d), created |-> <<>>, movement |-> <<>>]
       ELSE LET r == RemoveStock(d, -difference, TRUE, nf)
            IN [ok |-> r.ok, d |-> r.d, created |-> r.created, movement |-> <<>>]

----------------------------------------------------------------------------
(* Sequential calls on one Product instance *)

Pre == [stocks |-> stocks, movements |-> movements, qty |-> dbQty, self |-> selfQty]

NoEntry == [type |-> "none", qty |-> 0, stock |-> NoStock]

\* the last call: its arguments (op, q, fifo, batch_no, entry), its outcome
\* (ok, the entries it created, the batch or the entries it returned,
\* whether update_quantity_from_stock wrote), the state before it and the
\* call that preceded it
NoCall == [n |-> 0, op |-> "none", ok |-> TRUE, q |-> 0, fifo |-> TRUE, created |-> <<>>,
           pre |-> Ctx(<<>>, <<>>, 0, 0), batch_no |-> 0, stock |-> NoStock,
           returned |-> <<>>, entry |-> NoEntry, wrote |-> FALSE,
           prev |-> [op |-> "none", wrote |-> FALSE]]

Store(r, op, q, fifo) ==
    /\ stocks' = r.d.stocks
    /\ movements' = r.d.movements
    /\ dbQty' = r.d.qty
    /\ selfQty' = r.d.self
    /\ ret' = [NoCall EXCEPT !.n = ret.n + 1, !.op = op, !.ok = r.ok, !.q = q,
                             !.fifo = fifo, !.created = r.created, !.pre = Pre,
                             !.batch_no = r.batch_no, !.stock = r.stock,
                             !.returned = r.returned, !.entry = r.entry,
                             !.wrote = r.wrote,
                             !.prev = [op |-> ret.op, wrote |-> ret.wrote]]
    /\ UNCHANGED <<nullsFirst, tx, skuVars>>

\* what a call reports besides the new state
Outcome(ok, d, created) ==
    [ok |-> ok, d |-> d, created |-> created, batch_no |-> 0, stock |-> NoStock,
     returned |-> created, entry |-> NoEntry, wrote |-> FALSE]

InitLedger ==
    /\ stocks = <<>>
    /\ movements = <<>>
    /\ dbQty = 0
    /\ selfQty = 0
    /\ nullsFirst \in BOOLEAN
    /\ ret = NoCall

\* product.add_stock(q, unit_cost, batch_no, expiry_date); returns the batch
CallAddStock ==
    /\ ret.n < MaxCalls
    /\ \E q \in (0 - 1)..MaxQty, b \in BatchNos, e \in ExpiryDates :
          LET r == AddStock(Pre, q, b, e)
          IN Store([Outcome(r.ok, r.d, r.created) EXCEPT
                       !.batch_no = b, !.stock = r.stock, !.returned = <<>>],
                   "add", q, TRUE)

\* product.remove_stock(q, use_fifo=fifo); returns the entries it created
CallRemoveStock ==
    /\ ret.n < MaxCalls
    /\ \E q \in 0..(MaxQty + 1), fifo \in BOOLEAN :
          LET r == RemoveStock(Pre, q, fifo, nullsFirst)
          IN Store(Outcome(r.ok, r.d, r.created), "remove", q, fifo)

\* product.adjust_stock(target); returns the ADJUST entry or None
CallAdjustStock ==
    /\ ret.n < MaxCalls
    /\ \E target \in 0..(MaxQty + 1) :
          LET r == AdjustStock(Pre, target, nullsFirst)
          IN Store([Outcome(r.ok, r.d, r.created) EXCEPT !.returned = r.movement],
                   "adjust", target, TRUE)

\* StockMovement.objects.create(product=product, stock=stock, ...) with a
\* batch just read from the datastore (stock = None: NoStock); the atomic
\* block of StockMovement.save is the only transaction
CreateMovement(d, m) ==
    LET s == StockMovementSave(d, m, IF m.stock = NoStock THEN 0 ELSE d.stocks[m.stock].qty)
    IN IF s.ok THEN Outcome(TRUE, s.d, <<m>>) ELSE Outcome(FALSE, Rollback(d, s.d), <<>>)

MovementTypes == {"IN", "OUT", "ADJUST"}

CallCreateMovement ==
    /\ ret.n < MaxDirect
    /\ \E type \in MovementTypes, q \in (0 - MaxQty)..MaxQty,
          id \in {NoStock} \cup (1..Len(stocks)) :
          LET m == [type |-> type, qty |-> q, stock |-> id]
          IN Store([CreateMovement(Pre, m) EXCEPT !.entry = m, !.stock = id],
                   "move", q, TRUE)

\* StockMovement.save of the persisted entry k, loaded from the database:
\* super().save() updates the row, the rest of save runs as for a new entry
\* on the batch and the product the entry loads
SaveAgain(d, k) ==
    LET m == d.movements[k]
        loaded == [d EXCEPT !.self = d.qty]
        keep(c) == [c EXCEPT !.self = d.self]
    IN IF ~MovementClean(m)
       THEN Outcome(FALSE, d, <<>>)
       ELSE IF m.stock = NoStock
            THEN Outcome(TRUE, keep(UpdateQuantityFromStock(loaded)), <<>>)
            ELSE LET new == ApplyQuantity(d.stocks[m.stock].qty, m.qty)
                 IN IF NegativeQuantity(new)
                    THEN Outcome(FALSE, d, <<>>)
                    ELSE Outcome(TRUE,
                                 keep(UpdateQuantityFromStock(
                                        [loaded EXCEPT !.stocks[m.stock].qty = new])),
                                 <<>>)

\* m = StockMovement.objects.get(pk=k); m.note = ...; m.save()
CallSaveAgain ==
    /\ ret.n < MaxDirect
    /\ \E k \in 1..Len(movements) :
          Store([SaveAgain(Pre, k) EXCEPT !.entry = movements[k],
                                          !.stock = movements[k].stock],
                "resave", movements[k].qty, TRUE)

NextResave == CallCreateMovement \/ CallSaveAgain

\* product.update_quantity_from_stock()
CallUpdateQuantity ==
    /\ ret.n < MaxDirect
    /\ Store([Outcome(TRUE, UpdateQuantityFromStock(Pre), <<>>) EXCEPT
                  !.wrote = QuantityDiffers(Pre)],
             "update", 0, TRUE)

----------------------------------------------------------------------------
(* Batches saved and deleted directly *)

\* a deleted Stock row; its primary key is not used again
Deleted == [batch_no |-> 0 - 1, qty |-> 0, active |-> FALSE, expiry |-> NoExpiry]

LiveIds(stks) == {i \in 1..Len(stks) : stks[i] # Deleted}

\* self.product.update_quantity_from_stock() of a Stock instance: its
\* product is the caller's Product instance (shared) or an instance loaded
\* from the datastore with the batch
ProductUpdate(d, shared) ==
    IF shared
    THEN UpdateQuantityFromStock(d)
    ELSE [UpdateQuantityFromStock([d EXCEPT !.self = d.qty]) EXCEPT !.self = d.self]

\* StockMovement.stock: on_delete=SET_NULL
MutOnDeleteCascade(movs, id) == SelectSeq(movs, LAMBDA m : m.stock # id)

OnDeleteSetNull(movs, id) ==
    [k \in DOMAIN movs |->
        IF movs[k].stock = id THEN [movs[k] EXCEPT !.stock = NoStock] ELSE movs[k]]

\* Stock.objects.create(product=product, batch_no=b, quantity=q, ...);
\* unique_together (product, batch_no) rejects a second row for b
StockCreateWith(d, b, q) ==
    IF FindBatch(d.stocks, b) # NoStock
    THEN [ok |-> FALSE, d |-> d]
    ELSE [ok |-> TRUE,
          d |-> UpdateQuantityFromStock(
                  [d EXCEPT !.stocks = Append(@, [batch_no |-> b, qty |-> q,
                                                   active |-> TRUE,
                                                   expiry |-> NoExpiry])])]

\* Stock.save of a stored batch after setting quantity and is_active
StockSave(d, id, q, active, shared) ==
    ProductUpdate([d EXCEPT !.stocks[id].qty = q, !.stocks[id].active = active],
                  shared)

\* Stock.delete
StockDelete(d, id, shared) ==
    ProductUpdate([d EXCEPT !.stocks[id] = Deleted,
                            !.movements = OnDeleteSetNull(@, id)],
                  shared)

\* StockViewSet.update: the batch and its product are loaded by get_object,
\* an ADJUST entry records the change of quantity, perform_update saves
StockViewUpdate(d, id, q, active) ==
    LET loaded == [d EXCEPT !.self = d.qty]
        old_quantity == d.stocks[id].qty
        quantity_diff == q - old_quantity
        m == [type |-> "ADJUST", qty |-> quantity_diff, stock |-> id]
        s == IF quantity_diff # 0
             THEN StockMovementSave(loaded, m, old_quantity)
             ELSE [ok |-> TRUE, d |-> loaded]
    IN IF s.ok
       THEN [ok |-> TRUE,
             d |-> [UpdateQuantityFromStock(
                      [s.d EXCEPT !.stocks[id].qty = q, !.stocks[id].active = active])
                    EXCEPT !.self = d.self],
             created |-> IF quantity_diff # 0 THEN <<m>> ELSE <<>>]
       ELSE [ok |-> FALSE, d |-> d, created |-> <<>>]

CallCreateBatch ==
    /\ ret.n < MaxDirect
    /\ \E b \in BatchNos, q \in 0..MaxQty :
          LET r == StockCreateWith(Pre, b, q)
          IN Store([Outcome(r.ok, r.d, <<>>) EXCEPT
                       !.batch_no = b,
                       !.stock = IF r.ok THEN Len(r.d.stocks) ELSE NoStock],
                   "create", q, TRUE)

\* stock.quantity = q or stock.is_active = active, then stock.save()
CallSaveBatch ==
    /\ ret.n < MaxDirect
    /\ \E id \in LiveIds(stocks), q \in 0..MaxQty, active \in BOOLEAN,
          shared \in BOOLEAN :
          /\ q = stocks[id].qty \/ active = stocks[id].active
          /\ Store([Outcome(TRUE, StockSave(Pre, id, q, active, shared), <<>>)
                       EXCEPT !.stock = id],
                   "save", q, TRUE)

\* stock.delete()
CallDeleteBatch ==
    /\ ret.n < MaxDirect
    /\ \E id \in LiveIds(stocks), shared \in BOOLEAN :
          Store([Outcome(TRUE, StockDelete(Pre, id, shared), <<>>)
                    EXCEPT !.stock = id],
                "delete", 0, TRUE)

\* PUT /stocks/{id}/
CallStockViewUpdate ==
    /\ ret.n < MaxDirect
    /\ \E id \in LiveIds(stocks), q \in 0..MaxQty, active \in BOOLEAN :
          LET r == StockViewUpdate(Pre, id, q, active)
          IN Store([Outcome(r.ok, r.d, r.created) EXCEPT !.stock = id],
                   "view", q, TRUE)

\* product.remove_stock(q, use_fifo=fifo) on a product whose batches are
\* also saved directly
BatchRemoveStock ==
    /\ ret.n < MaxDirect
    /\ \E q \in 1..(MaxQty + 1), fifo \in BOOLEAN :
          LET r == RemoveStock(Pre, q, fifo, nullsFirst)
          IN Store(Outcome(r.ok, r.d, r.created), "remove", q, fifo)

\* product.add_stock(q, unit_cost, batch_no) on such a product
BatchAddStock ==
    /\ ret.n < MaxDirect
    /\ \E q \in 1..MaxQty, b \in BatchNos :
          LET r == AddStock(Pre, q, b, NoExpiry)
          IN Store([Outcome(r.ok, r.d, r.created) EXCEPT
                       !.batch_no = b, !.stock = r.stock, !.returned = <<>>],
                   "add", q, TRUE)

\* product.adjust_stock(target) on such a product
BatchAdjustStock ==
    /\ ret.n < MaxDirect
    /\ \E target \in (0 - 1)..(MaxQty + 1) :
          LET r == AdjustStock(Pre, target, nullsFirst)
          IN Store([Outcome(r.ok, r.d, r.created) EXCEPT !.returned = r.movement],
                   "adjust", target, TRUE)

----------------------------------------------------------------------------
(* Unit costs and batch details.  Where they matter a Stock row also has   *)
(* unit_cost and location, and a StockMovement row has unit_cost.          *)

NoCost == 0 - 1      \* unit_cost = NULL
NoValue == 0 - 1     \* total_value is None

Abs(n) == IF n < 0 THEN 0 - n ELSE n

\* "if self.unit_cost" of StockMovement.total_value: None and 0 are falsy
CostIsTruthy(cost) == cost # NoCost /\ cost # 0

\* StockMovement.total_value
TotalValue(m) == IF CostIsTruthy(m.unit_cost) THEN Abs(m.qty) * m.unit_cost ELSE NoValue

\* the defaults of get_or_create are used only when the row is created
MutDefaultsAlways(found) == TRUE

DefaultsApply(found) == found = NoStock

\* unit_cost, expiry_date and location passed to add_stock
Details == {[unit_cost |-> 5, expiry |-> NoExpiry, location |-> 0],
            [unit_cost |-> 0, expiry |-> 1, location |-> 1]}

WithCost(m, cost) ==
    [type |-> m.type, qty |-> m.qty, stock |-> m.stock, unit_cost |-> cost]

\* Product.add_stock with the columns unit_cost, expiry_date and location
AddStockWith(d, q, det, b) ==
    LET found == FindBatch(d.stocks, b)
        r == AddStock(d, q, b, det.expiry)
        id == r.stock
        row == r.d.stocks[id]
        given == [batch_no |-> row.batch_no, qty |-> row.qty, active |-> row.active,
                  expiry |-> det.expiry, unit_cost |-> det.unit_cost,
                  location |-> det.location]
        m == WithCost(r.created[1], det.unit_cost)
    IN IF r.ok
       THEN [r EXCEPT !.d.stocks[id] = IF DefaultsApply(found) THEN given ELSE @,
                      !.d.movements[Len(r.d.movements)] = m,
                      !.created = <<m>>]
       ELSE r

\* product.add_stock(q, unit_cost, batch_no, expiry_date, location)
CallAddStockWith ==
    /\ ret.n < MaxCalls
    /\ \E q \in 1..MaxQty, b \in BatchNos, det \in Details :
          LET r == AddStockWith(Pre, q, det, b)
          IN Store([Outcome(r.ok, r.d, r.created) EXCEPT
                       !.batch_no = b, !.stock = r.stock, !.returned = <<>>,
                       !.entry = [type |-> "IN", qty |-> q, stock |-> r.stock,
                                  unit_cost |-> det.unit_cost, expiry |-> det.expiry,
                                  location |-> det.location]],
                   "add", q, TRUE)

\* StockMovement.objects.create(product=product, movement_type='ADJUST',
\* quantity=q, unit_cost=cost), unit_cost being optional
CallCreateMovementWith ==
    /\ ret.n < MaxDirect
    /\ \E q \in (0 - MaxQty)..MaxQty, cost \in {NoCost, 0, 5} :
          LET m0 == [type |-> "ADJUST", qty |-> q, stock |-> NoStock]
              m == WithCost(m0, cost)
              r == CreateMovement(Pre, m0)
          IN Store([Outcome(r.ok,
                            IF r.ok
                            THEN [r.d EXCEPT !.movements[Len(r.d.movements)] = m]
                            ELSE r.d,
                            IF r.ok THEN <<m>> ELSE <<>>)
                       EXCEPT !.entry = m],
                   "move", q, TRUE)

NextCost == CallAddStockWith \/ CallCreateMovementWith \/ CallSaveBatch

----------------------------------------------------------------------------
(* add_stock without a batch number *)

\* the batch numbers "BATCH-..." lie apart from the numbers callers give
DefaultBatchBase == 10

\* timezone.now(), truncated to the second by strftime('%Y%m%d-%H%M%S')
Seconds == {1, 2}

\* f"BATCH-{timezone.now().strftime('%Y%m%d-%H%M%S')}"
DefaultBatchNo(sec) == DefaultBatchBase + sec

IsDefaultBatchNo(b) == b > DefaultBatchBase

\* the clock does not run backwards: no batch is stamped later than now
NotBefore(stks, sec) ==
    \A i \in 1..Len(stks) :
       IsDefaultBatchNo(stks[i].batch_no) => stks[i].batch_no <= DefaultBatchNo(sec)

\* product.add_stock(q, unit_cost) at the second sec
CallAddStockDefault ==
    /\ ret.n < MaxCalls
    /\ \E q \in 1..MaxQty, sec \in Seconds :
          /\ NotBefore(stocks, sec)
          /\ LET r == AddStock(Pre, q, DefaultBatchNo(sec), NoExpiry)
             IN Store([Outcome(r.ok, r.d, r.created) EXCEPT
                          !.batch_no = DefaultBatchNo(sec), !.stock = r.stock,
                          !.returned = <<>>],
                      "add", q, TRUE)

NextDefaultBatch == CallAddStockDefault \/ CallRemoveStock

----------------------------------------------------------------------------
(* SKU generation.  A string is a sequence of one-character strings.       *)

Lowers == <<"a","b","c","d","e","f","g","h","i","j","k","l","m",
            "n","o","p","q","r","s","t","u","v","w","x","y","z">>
Uppers == <<"A","B","C","D","E","F","G","H","I","J","K","L","M",
            "N","O","P","Q","R","S","T","U","V","W","X","Y","Z">>
Digits == <<"0","1","2","3","4","5","6","7","8","9">>

\* str.upper, one character
UpperChar(c) ==
    IF \E i \in 1..Len(Lowers) : Lowers[i] = c
    THEN Uppers[CHOOSE i \in 1..Len(Lowers) : Lowers[i] = c]
    ELSE c

\* str.upper
Upper(str) == [i \in 1..Len(str) |-> UpperChar(str[i])]

\* str.split(): the maximal runs of non-blank characters
RECURSIVE SplitFrom(_, _, _)
SplitFrom(str, word, words) ==
    IF str = <<>>
    THEN IF word = <<>> THEN words ELSE Append(words, word)
    ELSE IF Head(str) = " "
         THEN SplitFrom(Tail(str), <<>>, IF word = <<>> THEN words ELSE Append(words, word))
         ELSE SplitFrom(Tail(str), Append(word, Head(str)), words)

Split(str) == SplitFrom(str, <<>>, <<>>)

\* str[:n]
Take(str, n) == SubSeq(str, 1, Min(n, Len(str)))

\* str.ljust(width, fill)
RECURSIVE Ljust(_, _, _)
Ljust(str, width, fill) ==
    IF Len(str) >= width THEN str ELSE Ljust(Append(str, fill), width, fill)

\* str.zfill(width), for digit strings
RECURSIVE Zfill(_, _)
Zfill(str, width) ==
    IF Len(str) >= width THEN str ELSE Zfill(<<"0">> \o str, width)

\* str(n) for n >= 0
RECURSIVE Str(_)
Str(n) == IF n < 10 THEN <<Digits[n + 1]>> ELSE Append(Str(n \div 10), Digits[(n % 10) + 1])

\* prefix(name) of generate_sku; the name has at least one word
MutPrefixFirstWord(name) == Ljust(Upper(Take(Split(name)[1], 3)), 3, "X")

NamePrefix(name) ==
    LET words == Split(name)
        first == Upper(Take(words[1], 3))
        second == IF Len(words) > 1 THEN Upper(Take(words[2], 2)) ELSE <<>>
        result == first \o second
    IN IF Len(result) > 3 THEN Take(result, 3) ELSE Ljust(result, 3, "X")

\* sku_prefix = f"{cat_prefix}-{prod_abbr}"
SkuPrefix(cat, prod) == NamePrefix(cat) \o <<"-">> \o NamePrefix(prod)

\* prefix(name) of generate_preview_sku
PreviewNamePrefix(name) ==
    LET words == Split(name)
        first == Upper(Take(words[1], 3))
        second == IF Len(words) > 1 THEN Upper(Take(words[2], 2)) ELSE <<>>
        result == first \o second
    IN IF Len(result) > 3 THEN Take(result, 3) ELSE Ljust(result, 3, "X")

\* sku_prefix of generate_preview_sku
PreviewSkuPrefix(cat, prod) == PreviewNamePrefix(cat) \o <<"-">> \o PreviewNamePrefix(prod)

\* f"{sku_prefix}-{str(n).zfill(4)}"
FormatSku(pre, n) == pre \o <<"-">> \o Zfill(Str(n), 4)

\* f"SKU-{uuid4().hex[:8].upper()}-{now:%H%M%S}"
FallbackSku(hex, now) == <<"S","K","U","-">> \o Upper(hex) \o <<"-">> \o now

\* ProductSKUSequence rows: a function from the prefixes that have a row to
\* their last_number
NoRows == [pre \in {} |-> 0]

HasRow(tab, pre) == pre \in DOMAIN tab

WithRow(tab, pre, n) == [x \in DOMAIN tab \cup {pre} |-> IF x = pre THEN n ELSE tab[x]]

RECURSIVE SumRows(_, _)
SumRows(tab, pres) ==
    IF pres = {} THEN 0
    ELSE LET x == CHOOSE y \in pres : TRUE IN tab[x] + SumRows(tab, pres \ {x})

\* Product.generate_preview_sku
MutPreviewCreatesRow(tab, cat, prod) ==
    LET pre == PreviewSkuPrefix(cat, prod)
        tab1 == IF HasRow(tab, pre) THEN tab ELSE WithRow(tab, pre, 0)
    IN [seqs |-> tab1, sku |-> FormatSku(pre, tab1[pre] + 1)]

GeneratePreviewSku(tab, cat, prod) ==
    LET pre == PreviewSkuPrefix(cat, prod)
        next_number == IF HasRow(tab, pre) THEN tab[pre] + 1 ELSE 1
    IN [seqs |-> tab, sku |-> FormatSku(pre, next_number)]

\* an exception leaving the transaction.atomic() block of generate_sku
MutSkuNoRollback(tab0, tab1) == tab1

SkuRollback(tab0, tab1) == tab0

\* objects.select_for_update().get_or_create(prefix=sku_prefix)
MutGetOrCreateFromOne(tab, pre) == IF HasRow(tab, pre) THEN tab ELSE WithRow(tab, pre, 1)

GetOrCreate(tab, pre) == IF HasRow(tab, pre) THEN tab ELSE WithRow(tab, pre, 0)

\* seq.last_number += 1
MutIncrementTwice(n) == n + 2

NextNumber(n) == n + 1

\* generate_sku as one call; failAt is where the datastore raises, if it does
GenerateSku(tab, cat, prod, failAt, hex, now) ==
    LET pre == SkuPrefix(cat, prod)
        tab1 == GetOrCreate(tab, pre)
        tab2 == WithRow(tab1, pre, NextNumber(tab1[pre]))
        reached == IF failAt = "get" THEN tab
                   ELSE IF failAt = "save" THEN tab1
                   ELSE tab2
    IN IF failAt = "none"
       THEN [seqs |-> tab2, sku |-> FormatSku(pre, tab2[pre]), failed |-> FALSE,
             raised |-> FALSE]
       ELSE [seqs |-> SkuRollback(tab, reached), sku |-> FallbackSku(hex, now),
             failed |-> TRUE, raised |-> FALSE]

\* names, uuid4 prefixes and clock readings the calls are made with
Electronics == <<"E","l","e","c","t","r","o","n","i","c","s">>
Smartphone == <<"S","m","a","r","t","p","h","o","n","e">>
CocaCola == <<"C","o","c","a"," ","C","o","l","a">>
CategoryNames == {<<"A">>, Electronics}
ProductNames == {<<"B">>, Smartphone, CocaCola}
HexIds == {<<"0","a","1","b","9","c","e","f">>}
Clock == {<<"0","9","3","0","5","9">>}
FailPoints == {"none", "get", "save", "commit"}

----------------------------------------------------------------------------
(* Products created and saved.  A Product row is [sku, cat, name,          *)
(* quantity, pack_size]; the products of this part have no Stock rows.     *)

\* the test "if not self.sku" of Product.save
MutAlwaysGenerate(sku) == TRUE

SkuMissing(sku) == sku = <<>>

\* Product.sku is unique: another row holds this SKU
SkuTaken(prods, i, sku) == \E j \in (1..Len(prods)) \ {i} : prods[j].sku = sku

\* Product.available_stock
AvailableStock(p) == p.quantity * p.pack_size

NoProduct == 0

\* Product.save of instance inst; i is the row it was loaded from, NoProduct
\* for a new instance (self.pk is None)
ProductSave(prods, tab, i, inst, hex, now) ==
    LET update_quantity == i = NoProduct
        g == IF SkuMissing(inst.sku)
             THEN GenerateSku(tab, inst.cat, inst.name, "none", hex, now)
             ELSE [seqs |-> tab, sku |-> inst.sku]
        inst1 == [inst EXCEPT !.sku = g.sku]
        prods1 == IF i = NoProduct THEN Append(prods, inst1) ELSE [prods EXCEPT ![i] = inst1]
        row == IF i = NoProduct THEN Len(prods1) ELSE i
        d0 == Ctx(<<>>, <<>>, inst1.quantity, inst1.quantity)
        d == IF update_quantity THEN UpdateQuantityFromStock(d0) ELSE d0
    IN IF SkuTaken(prods, i, inst1.sku)
       THEN [ok |-> FALSE, products |-> prods, seqs |-> g.seqs, instance |-> inst1,
             row |-> i]
       ELSE [ok |-> TRUE, products |-> [prods1 EXCEPT ![row].quantity = d.qty],
             seqs |-> g.seqs, instance |-> [inst1 EXCEPT !.quantity = d.self],
             row |-> row]

\* names, SKUs and pack sizes the products are created with
TShirt == <<"T","-","S","h","i","r","t">>
CreatedNames == {Smartphone, TShirt}
ManualSku == <<"M","A","N","U","A","L","-","S","K","U","-","0","0","1">>
ManualSkus == {ManualSku, FormatSku(SkuPrefix(Electronics, Smartphone), 1)}
PackSizes == {1, 6}

NoInstance == [sku |-> <<>>, cat |-> <<>>, name |-> <<>>, quantity |-> 0, pack_size |-> 1]

\* the last Product.save: the instance it was called on (given) and as it
\* left it (instance), the row it wrote, the rows and counters before it
NoSave == [n |-> 0, op |-> "none", ok |-> TRUE, given |-> NoInstance,
           instance |-> NoInstance, row |-> NoProduct, before |-> <<>>,
           seqs |-> NoRows, prices |-> <<0, 0, 0, 0>>]

InitProducts ==
    /\ products = <<>>
    /\ prodRet = NoSave

StoreSave(r, op, given) ==
    /\ products' = r.products
    /\ seqs' = r.seqs
    /\ prodRet' = [n |-> prodRet.n + 1, op |-> op, ok |-> r.ok, given |-> given,
                   instance |-> r.instance, row |-> r.row, before |-> products,
                   seqs |-> seqs, prices |-> NoSave.prices]
    /\ UNCHANGED <<skuRet, proc, ledgerVars, tx>>

\* Product.objects.create(name=..., category=..., sku=..., quantity=q,
\* pack_size=p)
CallCreateProduct ==
    /\ prodRet.n < MaxSaves
    /\ \E name \in CreatedNames, sku \in {<<>>} \cup ManualSkus, q \in 0..MaxQty,
          p \in PackSizes, hex \in HexIds, now \in Clock :
          LET inst == [sku |-> sku, cat |-> Electronics, name |-> name,
                       quantity |-> q, pack_size |-> p]
          IN StoreSave(ProductSave(products, seqs, NoProduct, inst, hex, now),
                       "create", inst)

\* product = Product.objects.get(pk=i); product.quantity = q; product.save()
CallSaveProduct ==
    /\ prodRet.n < MaxSaves
    /\ \E i \in 1..Len(products), q \in 0..MaxQty, hex \in HexIds, now \in Clock :
          LET inst == [products[i] EXCEPT !.quantity = q]
          IN StoreSave(ProductSave(products, seqs, i, inst, hex, now), "save", inst)

NextProduct == CallCreateProduct \/ CallSaveProduct

\* Product.clean; prices = <<unit_cost, least_selling_price, wholesale_price,
\* retail_price>>; TRUE when no ValidationError is raised
MutCleanOrderOnly(prices) ==
    prices[1] <= prices[2] /\ prices[2] <= prices[3] /\ prices[3] <= prices[4]

ProductClean(prices) ==
    IF \E i \in 1..Len(prices) : prices[i] < 0
    THEN FALSE
    ELSE IF ~(prices[1] <= prices[2] /\ prices[2] <= prices[3] /\ prices[3] <= prices[4])
    THEN FALSE
    ELSE TRUE

Prices == (0 - 1)..MaxPrice

\* Product(unit_cost=..., least_selling_price=..., wholesale_price=...,
\* retail_price=...).full_clean()
CallCleanProduct ==
    /\ \E uc, ls, ws, rp \in Prices :
          prodRet' = [NoSave EXCEPT !.op = "clean", !.ok = ProductClean(<<uc, ls, ws, rp>>),
                                    !.prices = <<uc, ls, ws, rp>>]
    /\ UNCHANGED <<products, seqs, skuRet, proc, ledgerVars, tx>>

NextClean == CallCleanProduct

----------------------------------------------------------------------------
(* Sequential SKU calls *)

NoSkuCall == [op |-> "none", cat |-> <<>>, prod |-> <<>>, sku |-> <<>>,
              failed |-> FALSE, raised |-> FALSE, pre |-> NoRows,
              prev |-> [op |-> "none", cat |-> <<>>, prod |-> <<>>, sku |-> <<>>,
                        failed |-> FALSE]]

PrevCall == [op |-> skuRet.op, cat |-> skuRet.cat, prod |-> skuRet.prod,
             sku |-> skuRet.sku, failed |-> skuRet.failed]

IdleProc == [pc |-> "idle", cat |-> <<>>, prod |-> <<>>, mem |-> 0, created |-> FALSE,
             sku |-> <<>>, failed |-> FALSE, overlapped |-> FALSE, crossed |-> FALSE]

Procs == 1..NumProcs

InitSkuIdle ==
    /\ seqs = NoRows
    /\ skuRet = NoSkuCall
    /\ proc = [p \in Procs |-> IdleProc]
    /\ InitProducts

CallPreviewSku ==
    \E cat \in CategoryNames, prod \in ProductNames :
        LET r == GeneratePreviewSku(seqs, cat, prod)
        IN /\ seqs' = r.seqs
           /\ skuRet' = [op |-> "preview", cat |-> cat, prod |-> prod, sku |-> r.sku,
                         failed |-> FALSE, raised |-> FALSE, pre |-> seqs,
                         prev |-> PrevCall]
           /\ UNCHANGED <<proc, productVars, ledgerVars, tx>>

CallGenerateSku ==
    /\ SumRows(seqs, DOMAIN seqs) < MaxAlloc
    /\ \E cat \in CategoryNames, prod \in ProductNames, failAt \in FailPoints,
          hex \in HexIds, now \in Clock :
        LET r == GenerateSku(seqs, cat, prod, failAt, hex, now)
        IN /\ seqs' = r.seqs
           /\ skuRet' = [op |-> "generate", cat |-> cat, prod |-> prod, sku |-> r.sku,
                         failed |-> r.failed, raised |-> r.raised, pre |-> seqs,
                         prev |-> PrevCall]
           /\ UNCHANGED <<proc, productVars, ledgerVars, tx>>

NextSku == CallPreviewSku \/ CallGenerateSku

\* the (category name, product name) pairs of test_sku_prefix_generation,
\* and one whose second word is used
FoodBeverage == <<"F","o","o","d"," ","B","e","v","e","r","a","g","e">>
Books == <<"B","o","o","k","s">>
PythonProgramming == <<"P","y","t","h","o","n"," ","P","r","o","g","r","a","m","m","i","n","g">>
TvBox == <<"T","V"," ","B","o","x">>
GoPro == <<"G","o"," ","P","r","o">>
NamePairs == {<<Electronics, Smartphone>>, <<FoodBeverage, CocaCola>>,
              <<Books, PythonProgramming>>, <<(<<"A">>), (<<"B">>)>>,
              <<TvBox, GoPro>>}

\* Product.generate_preview_sku(category_name, product_name) for such a pair
PreviewForPair ==
    \E pair \in NamePairs :
        LET r == GeneratePreviewSku(seqs, pair[1], pair[2])
        IN /\ seqs' = r.seqs
           /\ skuRet' = [op |-> "preview", cat |-> pair[1], prod |-> pair[2],
                         sku |-> r.sku, failed |-> FALSE, raised |-> FALSE,
                         pre |-> seqs, prev |-> PrevCall]
           /\ UNCHANGED <<proc, productVars, ledgerVars, tx>>

\* generate_sku(category_name, product_name) for such a pair
GenerateForPair ==
    /\ SumRows(seqs, DOMAIN seqs) < MaxAlloc
    /\ \E pair \in NamePairs, hex \in HexIds, now \in Clock :
        LET r == GenerateSku(seqs, pair[1], pair[2], "none", hex, now)
        IN /\ seqs' = r.seqs
           /\ skuRet' = [op |-> "generate", cat |-> pair[1], prod |-> pair[2],
                         sku |-> r.sku, failed |-> r.failed, raised |-> r.raised,
                         pre |-> seqs, prev |-> PrevCall]
           /\ UNCHANGED <<proc, productVars, ledgerVars, tx>>

NextPrefix == PreviewForPair \/ GenerateForPair

----------------------------------------------------------------------------
(* Concurrent generate_sku calls.  select_for_update() holds the counter   *)
(* row of the prefix from get_or_create to the end of the transaction; a   *)
(* row inserted by get_or_create is invisible to, and blocks the insert    *)
(* of, other transactions until the inserting transaction ends.            *)

InProgress(p) == proc[p].pc \in {"start", "locked", "saved"}

ProcPrefix(p) == SkuPrefix(proc[p].cat, proc[p].prod)

HoldsRow(q, pre) == proc[q].pc \in {"locked", "saved"} /\ ProcPrefix(q) = pre

\* select_for_update(): the row is locked by another transaction
MutNoRowLock(p, pre) == FALSE

MutTableLock(p, pre) == \E q \in Procs \ {p} : proc[q].pc \in {"locked", "saved"}

RowLocked(p, pre) == \E q \in Procs \ {p} : HoldsRow(q, pre)

\* generate_sku up to the transaction.atomic() block
SkuBegin(p) ==
    /\ proc[p].pc = "idle"
    /\ \E cat \in {Electronics}, prod \in {Smartphone, CocaCola} :
          proc' = [proc EXCEPT ![p].pc = "start", ![p].cat = cat, ![p].prod = prod,
                               ![p].overlapped =
                                   \E q \in Procs \ {p} :
                                       InProgress(q)
                                       /\ ProcPrefix(q) = SkuPrefix(cat, prod)]
    /\ UNCHANGED <<seqs, skuRet, productVars, ledgerVars, tx>>

\* another transaction holds the counter row of a different prefix
HeldElsewhere(p) ==
    \E q \in Procs \ {p} :
        proc[q].pc \in {"locked", "saved"} /\ ProcPrefix(q) # ProcPrefix(p)

\* select_for_update().get_or_create(prefix=sku_prefix) has to wait: for
\* the lock of the row, or for the end of the transaction that inserted it
MustWait(p) ==
    IF HasRow(seqs, ProcPrefix(p))
    THEN RowLocked(p, ProcPrefix(p))
    ELSE \E q \in Procs \ {p} : HoldsRow(q, ProcPrefix(p))

\* select_for_update().get_or_create(prefix=sku_prefix)
SkuGetOrCreate(p) ==
    /\ proc[p].pc = "start"
    /\ ~MustWait(p)
    /\ IF HasRow(seqs, ProcPrefix(p))
       THEN /\ ~RowLocked(p, ProcPrefix(p))
            /\ proc' = [proc EXCEPT ![p].pc = "locked", ![p].mem = seqs[ProcPrefix(p)],
                                    ![p].crossed = HeldElsewhere(p)]
       ELSE /\ ~\E q \in Procs \ {p} : HoldsRow(q, ProcPrefix(p))
            /\ proc' = [proc EXCEPT ![p].pc = "locked", ![p].created = TRUE,
                                    ![p].mem = GetOrCreate(seqs, ProcPrefix(p))[ProcPrefix(p)],
                                    ![p].crossed = HeldElsewhere(p)]
    /\ UNCHANGED <<seqs, skuRet, productVars, ledgerVars, tx>>

\* seq.last_number += 1; seq.save()
SkuSave(p) ==
    /\ proc[p].pc = "locked"
    /\ proc' = [proc EXCEPT ![p].pc = "saved", ![p].mem = @ + 1]
    /\ UNCHANGED <<seqs, skuRet, productVars, ledgerVars, tx>>

\* return f"{sku_prefix}-{sku_number}": the atomic block commits
SkuCommit(p) ==
    /\ proc[p].pc = "saved"
    /\ seqs' = WithRow(seqs, ProcPrefix(p), proc[p].mem)
    /\ proc' = [proc EXCEPT ![p].pc = "done",
                            ![p].sku = FormatSku(ProcPrefix(p), proc[p].mem)]
    /\ UNCHANGED <<skuRet, productVars, ledgerVars, tx>>

\* except Exception: the transaction is rolled back, the fallback returned
SkuFail(p) ==
    /\ InProgress(p)
    /\ \E hex \in HexIds, now \in Clock :
          proc' = [proc EXCEPT ![p].pc = "done", ![p].failed = TRUE,
                               ![p].sku = FallbackSku(hex, now)]
    /\ UNCHANGED <<seqs, skuRet, productVars, ledgerVars, tx>>

NextSkuConc ==
    \E p \in Procs : SkuBegin(p) \/ SkuGetOrCreate(p) \/ SkuSave(p) \/ SkuCommit(p) \/ SkuFail(p)

----------------------------------------------------------------------------
(* Concurrent requests (views.py): each request loads its own Product      *)
(* instance with get_object() and then runs one operation in its own       *)
(* transaction.  The datastore is read-committed: a transaction reads what *)
(* is committed when the statement runs.  remove_stock evaluates its       *)
(* queryset without a lock (no select_for_update), so the read of the      *)
(* batches and the writes that follow are two steps; the writes of one     *)
(* transaction and its commit are taken together.                          *)

Txs == 1..NumTx

IdleTx == [pc |-> "idle", op |-> "none", self |-> 0, q |-> 0, entries |-> <<>>,
           loadedAt |-> 0, created |-> <<>>]

Committed == {t \in Txs : tx[t].pc = "done"}

\* the database after add_stock(q1, batch 1) and add_stock(q2, batch 2) on a
\* newly created product
TwoBatches(q1, q2) ==
    AddStock(AddStock(Ctx(<<>>, <<>>, 0, 0), q1, 1, NoExpiry).d, q2, 2, NoExpiry).d

InitConc ==
    /\ \E q1, q2 \in 1..MaxQty :
          /\ stocks = TwoBatches(q1, q2).stocks
          /\ movements = TwoBatches(q1, q2).movements
          /\ dbQty = TwoBatches(q1, q2).qty
          /\ selfQty = TwoBatches(q1, q2).self
    /\ nullsFirst \in BOOLEAN
    /\ ret = NoCall
    /\ tx = [t \in Txs |-> IdleTx]
    /\ InitSkuIdle

\* ProductViewSet.add_stock / remove_stock: product = self.get_object()
TxLoad(t) ==
    /\ tx[t].pc = "idle"
    /\ tx' = [tx EXCEPT ![t].pc = "loaded", ![t].self = dbQty,
                        ![t].loadedAt = Cardinality(Committed)]
    /\ UNCHANGED ledgerVars
    /\ UNCHANGED skuVars

TxStore(t, r, op, q) ==
    /\ stocks' = r.d.stocks
    /\ movements' = r.d.movements
    /\ dbQty' = r.d.qty
    /\ tx' = [tx EXCEPT ![t].pc = IF r.ok THEN "done" ELSE "failed",
                        ![t].op = op, ![t].q = q, ![t].self = r.d.self,
                        ![t].created = r.created]
    /\ UNCHANGED <<selfQty, nullsFirst, ret>>
    /\ UNCHANGED skuVars

\* ProductViewSet.add_stock: product.add_stock(...), one transaction
TxAddStock(t) ==
    /\ tx[t].pc = "loaded"
    /\ \E q \in 1..MaxQty, b \in BatchNos :
          TxStore(t, AddStock(Ctx(stocks, movements, dbQty, tx[t].self), q, b, NoExpiry),
                  "add", q)

\* Product.remove_stock up to the evaluation of its queryset
TxRemoveBegin(t) ==
    /\ tx[t].pc = "loaded"
    /\ \E q \in 1..MaxQty :
          tx' = [tx EXCEPT ![t].pc = "reading", ![t].op = "remove", ![t].q = q,
                           ![t].entries = RemoveEntries(stocks, nullsFirst, TRUE)]
    /\ UNCHANGED ledgerVars
    /\ UNCHANGED skuVars

\* Product.remove_stock from the loop to the commit
TxRemoveFinish(t) ==
    /\ tx[t].pc = "reading"
    /\ TxStore(t, RemoveStockWith(Ctx(stocks, movements, dbQty, tx[t].self),
                                  tx[t].q, tx[t].entries),
               "remove", tx[t].q)

NextConc ==
    \E t \in Txs : TxLoad(t) \/ TxAddStock(t) \/ TxRemoveBegin(t) \/ TxRemoveFinish(t)

----------------------------------------------------------------------------
Init ==
    /\ InitLedger
    /\ tx = [t \in Txs |-> IdleTx]
    /\ InitSkuIdle

\* the counter table before the concurrent calls: empty, or as left by
\* earlier generate_sku calls for one of the prefixes
InitSkuConc ==
    /\ InitLedger
    /\ nullsFirst = FALSE
    /\ tx = [t \in Txs |-> IdleTx]
    /\ proc = [p \in Procs |-> IdleProc]
    /\ \/ seqs = NoRows
       \/ \E prod \in {Smartphone, CocaCola}, hex \in HexIds, now \in Clock :
             seqs = GenerateSku(NoRows, Electronics, prod, "none", hex, now).seqs
    /\ skuRet = [NoSkuCall EXCEPT !.pre = seqs]
    /\ InitProducts

Next == CallAddStock \/ CallRemoveStock \/ CallAdjustStock

\* a product that already holds one batch, as add_stock leaves it, or as a
\* remove_stock that then failed for lack of stock leaves it
InitStocked ==
    /\ nullsFirst = FALSE
    /\ \E q \in 1..MaxQty, failed \in BOOLEAN :
          LET d0 == AddStock(Ctx(<<>>, <<>>, 0, 0), q, 1, NoExpiry).d
              d == IF failed THEN RemoveStock(d0, q + 1, TRUE, nullsFirst).d ELSE d0
          IN /\ stocks = d.stocks
             /\ movements = d.movements
             /\ dbQty = d.qty
             /\ selfQty = d.self
    /\ ret = NoCall
    /\ tx = [t \in Txs |-> IdleTx]
    /\ InitSkuIdle

\* ledger entries created directly and direct recomputations of the
\* product quantity
NextDirect == CallCreateMovement \/ CallUpdateQuantity

\* batches created, saved and deleted directly, between removals
NextBatch ==
    \/ CallCreateBatch
    \/ CallSaveBatch
    \/ CallDeleteBatch
    \/ CallStockViewUpdate
    \/ BatchRemoveStock
    \/ BatchAddStock
    \/ BatchAdjustStock

vars == <<stocks, movements, dbQty, selfQty, nullsFirst, ret, tx, seqs, skuRet, proc,
          products, prodRet>>

Spec == Init /\ [][Next]_vars

SpecStocked == InitStocked /\ [][Next]_vars

SpecResave == InitStocked /\ [][NextResave]_vars

\* a product with two batches, the older one expiring first or last
InitTwoBatches ==
    /\ nullsFirst = FALSE
    /\ \E e \in {<<1, 2>>, <<2, 1>>} :
          LET d1 == AddStock(Ctx(<<>>, <<>>, 0, 0), 1, 1, e[1]).d
              d == AddStock(d1, MaxQty, 2, e[2]).d
          IN /\ stocks = d.stocks
             /\ movements = d.movements
             /\ dbQty = d.qty
             /\ selfQty = d.self
    /\ ret = NoCall
    /\ tx = [t \in Txs |-> IdleTx]
    /\ InitSkuIdle

SpecTwoBatches == InitTwoBatches /\ [][Next]_vars

SpecDirect == InitStocked /\ [][NextDirect]_vars

SpecBatch == InitStocked /\ [][NextBatch]_vars

SpecConc == InitConc /\ [][NextConc]_vars

\* the SKU calls do not depend on the ordering of NULL expiry dates
InitSku == Init /\ nullsFirst = FALSE

SpecSku == InitSku /\ [][NextSku]_vars

SpecSkuConc == InitSkuConc /\ [][NextSkuConc]_vars

\* no product stored yet; the counter of one prefix is new or has been
\* allocated 9999 times
InitProduct ==
    /\ InitLedger
    /\ nullsFirst = FALSE
    /\ tx = [t \in Txs |-> IdleTx]
    /\ seqs \in {NoRows, WithRow(NoRows, SkuPrefix(Electronics, Smartphone), 9999)}
    /\ skuRet = NoSkuCall
    /\ proc = [p \in Procs |-> IdleProc]
    /\ InitProducts

SpecProduct == InitProduct /\ [][NextProduct]_vars

SpecPrefix == InitSku /\ [][NextPrefix]_vars

SpecClean == InitSku /\ [][NextClean]_vars

SpecCost == InitSku /\ [][NextCost]_vars

SpecDefaultBatch == InitSku /\ [][NextDefaultBatch]_vars

----------------------------------------------------------------------------
(* Properties of the sequential ledger (specification Spec) *)

\* batches of the state before the last call that its queryset could select
Eligible(i) == ret.pre.stocks[i].active /\ ret.pre.stocks[i].qty > 0

\* batches whose stored quantity the last call changed
Touched == {i \in 1..Len(ret.pre.stocks) : stocks[i].qty # ret.pre.stocks[i].qty}

RECURSIVE SumMagnitudes(_)
SumMagnitudes(ms) == IF ms = <<>> THEN 0 ELSE (0 - Head(ms).qty) + SumMagnitudes(Tail(ms))

\* C1: after every add_stock / remove_stock / adjust_stock call made through
\* one Product instance, succeeding or failing, the stored product quantity
\* equals the sum of the stored quantities of the product's active batches.
C1_QuantityEqualsActiveSum == dbQty = SumActive(stocks)

\* C4: remove_stock(q) with q above the total of the active batches raises
\* and persists nothing: batch rows, product quantity and ledger entries are
\* those of the state before the call.
C4_InsufficientRollsBack ==
    (ret.op = "remove" /\ ret.q > SumActive(ret.pre.stocks)) =>
        /\ ~ret.ok
        /\ stocks = ret.pre.stocks
        /\ dbQty = ret.pre.qty
        /\ movements = ret.pre.movements

\* a failed removal that had already consumed a batch before it raised
C4_Witness ==
    /\ ret.op = "remove"
    /\ ~ret.ok
    /\ ret.q > SumActive(ret.pre.stocks)
    /\ SumActive(ret.pre.stocks) > 0
    /\ selfQty # ret.pre.self

\* C5: a successful remove_stock(q) persists exactly one OUT entry per batch
\* it takes stock from, each negative with the amount taken from that batch
\* as magnitude; the magnitudes sum to q and every touched batch but the
\* last in consumption order ends with quantity 0.
C5_OneOutEntryPerBatch ==
    (ret.op = "remove" /\ ret.ok) =>
        /\ movements = ret.pre.movements \o ret.created
        /\ Len(stocks) = Len(ret.pre.stocks)
        /\ \A k \in 1..Len(ret.created) :
              /\ ret.created[k].type = "OUT"
              /\ ret.created[k].qty < 0
              /\ ret.created[k].stock \in Touched
              /\ 0 - ret.created[k].qty =
                    ret.pre.stocks[ret.created[k].stock].qty
                      - stocks[ret.created[k].stock].qty
              /\ k < Len(ret.created) => stocks[ret.created[k].stock].qty = 0
        /\ \A i \in Touched :
              Cardinality({k \in 1..Len(ret.created) : ret.created[k].stock = i}) = 1
        /\ SumMagnitudes(ret.created) = ret.q

\* a successful removal that took stock from two batches and left the
\* second one partly filled
C5_Witness ==
    /\ ret.op = "remove"
    /\ ret.ok
    /\ Len(ret.created) = 2
    /\ stocks[ret.created[2].stock].qty > 0

\* the order the claim states: earlier expiry date first; equal expiry dates
\* (or no expiry date on either) by creation time
ClaimedBefore(i, j) ==
    LET ei == ret.pre.stocks[i].expiry
        ej == ret.pre.stocks[j].expiry
    IN \/ ei # NoExpiry /\ ej # NoExpiry /\ ei < ej
       \/ ei = ej /\ i < j

\* C6: with use_fifo=true no batch is decremented by a successful removal
\* while an eligible batch preceding it (expiry date, then creation time)
\* still holds stock.
C6_FifoOrder ==
    (ret.op = "remove" /\ ret.ok /\ ret.fifo) =>
        \A i, j \in 1..Len(ret.pre.stocks) :
            (Eligible(i) /\ Eligible(j) /\ ClaimedBefore(i, j)
               /\ stocks[j].qty < ret.pre.stocks[j].qty)
            => stocks[i].qty = 0

\* a FIFO removal that emptied a later-created batch with the earlier expiry
\* date before drawing on an earlier-created one
C6_Witness ==
    /\ ret.op = "remove"
    /\ ret.ok
    /\ ret.fifo
    /\ \E i, j \in 1..Len(ret.pre.stocks) :
          /\ i < j
          /\ Eligible(i)
          /\ ClaimedBefore(j, i)
          /\ stocks[j].qty = 0
          /\ ret.pre.stocks[j].qty > 0
          /\ stocks[i].qty < ret.pre.stocks[i].qty

----------------------------------------------------------------------------
(* Properties of concurrent requests (specification SpecConc) *)

RECURSIVE SumQtyUpTo(_, _)
SumQtyUpTo(stks, n) == IF n = 0 THEN 0 ELSE SumQtyUpTo(stks, n - 1) + stks[n].qty

RECURSIVE SumIn(_)
SumIn(ms) ==
    IF ms = <<>> THEN 0
    ELSE (IF Head(ms).type = "IN" THEN Head(ms).qty ELSE 0) + SumIn(Tail(ms))

RECURSIVE SumCreated(_)
SumCreated(ts) ==
    IF ts = {} THEN 0
    ELSE LET t == CHOOSE u \in ts : TRUE
         IN SumMagnitudes(tx[t].created) + SumCreated(ts \ {t})

\* C2: when concurrent remove_stock calls for the product all commit, the
\* batch quantities have decreased by exactly the sum of the magnitudes of
\* the OUT entries the calls created, and that sum does not exceed the stock
\* available before the calls (all of it was added by the IN entries).
C2_NoDoubleSpend ==
    (\A t \in Txs : tx[t].op = "remove" /\ tx[t].pc = "done") =>
        /\ SumQtyUpTo(stocks, Len(stocks)) = SumIn(movements) - SumCreated(Txs)
        /\ SumCreated(Txs) <= SumIn(movements)

\* C3: when the requests each loaded their own Product instance before any
\* of them committed, then after all have committed the stored product
\* quantity equals the sum of the quantities of the active batches.
C3_ConcurrentQuantityConsistent ==
    (\A t \in Txs : tx[t].pc = "done" /\ tx[t].loadedAt = 0) =>
        dbQty = SumActive(stocks)

----------------------------------------------------------------------------
(* Properties of SKU generation (specifications SpecSku and SpecSkuConc) *)

\* last_number of a prefix in a counter table, 0 when it has no row
CounterOf(tab, pre) == IF HasRow(tab, pre) THEN tab[pre] ELSE 0

\* the concurrent calls for a prefix that returned a sequence SKU
Allocated(pre) ==
    {p \in Procs : proc[p].pc = "done" /\ ~proc[p].failed /\ ProcPrefix(p) = pre}

\* C7: the generate_sku calls that ran concurrently for one prefix returned
\* pairwise distinct sequence numbers forming the contiguous range
\* last_number+1 .. last_number+N, N being the number of calls that
\* allocated (a call whose allocation failed returns no sequence number).
C7_DistinctContiguous ==
    \A p \in Procs :
        LET pre == ProcPrefix(p)
            nums == {proc[q].mem : q \in Allocated(pre)}
        IN proc[p].pc = "done" =>
              /\ Cardinality(nums) = Cardinality(Allocated(pre))
              /\ nums = (CounterOf(skuRet.pre, pre) + 1)
                          .. (CounterOf(skuRet.pre, pre) + Cardinality(Allocated(pre)))
              /\ \A q \in Allocated(pre) : proc[q].sku = FormatSku(pre, proc[q].mem)

\* every call allocated for the same prefix and one started while another
\* was inside its transaction
C7_Witness ==
    /\ \A p \in Procs : proc[p].pc = "done" /\ ~proc[p].failed
    /\ \A p, q \in Procs : ProcPrefix(p) = ProcPrefix(q)
    /\ \E p \in Procs : proc[p].overlapped

UpperHexChars == {"0","1","2","3","4","5","6","7","8","9","A","B","C","D","E","F"}

DigitChars == {Digits[i] : i \in 1..Len(Digits)}

\* 'SKU-<8 hex chars>-<HHMMSS>'
IsFallbackForm(sku) ==
    /\ Len(sku) = 19
    /\ SubSeq(sku, 1, 4) = <<"S","K","U","-">>
    /\ \A i \in 5..12 : sku[i] \in UpperHexChars
    /\ sku[13] = "-"
    /\ \A i \in 14..19 : sku[i] \in DigitChars

\* C8: when sequence allocation raises, generate_sku raises nothing, returns
\* a fallback SKU 'SKU-<8 hex chars>-<HHMMSS>', and every prefix counter
\* (row and value) is as before the call.
C8_FallbackKeepsCounter ==
    (skuRet.op = "generate" /\ skuRet.failed) =>
        /\ ~skuRet.raised
        /\ IsFallbackForm(skuRet.sku)
        /\ seqs = skuRet.pre

\* a failed allocation for a prefix whose counter already had a value
C8_Witness ==
    /\ skuRet.op = "generate"
    /\ skuRet.failed
    /\ HasRow(skuRet.pre, SkuPrefix(skuRet.cat, skuRet.prod))
    /\ skuRet.pre[SkuPrefix(skuRet.cat, skuRet.prod)] > 0

PreviewThenGenerate ==
    /\ skuRet.op = "generate"
    /\ ~skuRet.failed
    /\ skuRet.prev.op = "preview"
    /\ skuRet.prev.cat = skuRet.cat
    /\ skuRet.prev.prod = skuRet.prod

C9_WitnessExistingRow ==
    /\ PreviewThenGenerate
    /\ HasRow(skuRet.pre, SkuPrefix(skuRet.cat, skuRet.prod))

\* C10: generate_preview_sku changes no counter and creates no counter row,
\* and a preview repeated for the same names returns the same SKU.
C10_PreviewChangesNothing ==
    skuRet.op = "preview" =>
        /\ seqs = skuRet.pre
        /\ (skuRet.prev.op = "preview" /\ skuRet.prev.cat = skuRet.cat
              /\ skuRet.prev.prod = skuRet.prod)
           => skuRet.sku = skuRet.prev.sku

\* a repeated preview for a prefix that still has no counter row
C10_Witness ==
    /\ skuRet.op = "preview"
    /\ skuRet.prev.op = "preview"
    /\ skuRet.prev.cat = skuRet.cat
    /\ skuRet.prev.prod = skuRet.prod
    /\ ~HasRow(seqs, SkuPrefix(skuRet.cat, skuRet.prod))

----------------------------------------------------------------------------
(* Properties of the ledger calls, continued (specifications Spec,         *)
(* SpecStocked and SpecDirect)                                             *)

\* the batch a directly created entry names, in the state before the call
EntryBatch == ret.pre.stocks[ret.entry.stock]

\* C11: every stored batch quantity is >= 0, and a ledger entry whose
\* application would make its batch's quantity negative fails and leaves
\* batches, ledger and product quantity as they were stored before it.
C11_BatchNeverNegative ==
    /\ \A i \in 1..Len(stocks) : stocks[i].qty >= 0
    /\ (ret.op = "move" /\ ret.entry.stock # NoStock
           /\ EntryBatch.qty + ret.entry.qty < 0)
       => /\ ~ret.ok
          /\ stocks = ret.pre.stocks
          /\ movements = ret.pre.movements
          /\ dbQty = ret.pre.qty

\* an OUT entry, valid in itself, for more than its batch holds
C11_Witness ==
    /\ ret.op = "move"
    /\ ret.entry.type = "OUT"
    /\ ret.entry.qty < 0
    /\ ret.entry.stock # NoStock
    /\ EntryBatch.qty > 0
    /\ EntryBatch.qty + ret.entry.qty < 0

\* the batches that had the batch_no of the last add_stock before the call
\* (at most one: product and batch_no are unique together)
Named == {i \in 1..Len(ret.pre.stocks) : ret.pre.stocks[i].batch_no = ret.batch_no}

\* the batch the last add_stock had to locate (NoStock when it had to
\* create one)
AddTarget == IF Named = {} THEN NoStock ELSE CHOOSE i \in Named : TRUE

\* C12: a successful add_stock(q, batch_no) with q > 0 persists exactly one
\* entry, IN with quantity q for the batch located or created for batch_no,
\* raises that batch's quantity by q (a new batch goes from 0 to q), leaves
\* the other batches alone and returns that batch.
C12_AddCreatesOneInEntry ==
    (ret.op = "add" /\ ret.ok /\ ret.q > 0) =>
        /\ ret.stock \in 1..Len(stocks)
        /\ stocks[ret.stock].batch_no = ret.batch_no
        /\ movements = Append(ret.pre.movements,
                              [type |-> "IN", qty |-> ret.q, stock |-> ret.stock])
        /\ IF AddTarget = NoStock
           THEN /\ Len(stocks) = Len(ret.pre.stocks) + 1
                /\ ret.stock = Len(stocks)
                /\ stocks[ret.stock].qty = ret.q
           ELSE /\ Len(stocks) = Len(ret.pre.stocks)
                /\ ret.stock = AddTarget
                /\ stocks[ret.stock].qty = ret.pre.stocks[ret.stock].qty + ret.q
        /\ \A i \in 1..Len(ret.pre.stocks) : i # ret.stock => stocks[i] = ret.pre.stocks[i]

\* an addition to a batch that existed and held stock
C12_Witness ==
    /\ ret.op = "add"
    /\ ret.ok
    /\ AddTarget # NoStock
    /\ ret.pre.stocks[AddTarget].qty > 0

\* C13: after a successful add_stock(q) the stored product quantity is q
\* more than it was before the call, for a new and for an existing batch.
C13_AddRaisesQuantityByQ ==
    (ret.op = "add" /\ ret.ok) => dbQty = ret.pre.qty + ret.q

\* C14: add_stock with quantity <= 0 fails and persists nothing: no entry,
\* no batch (also when batch_no names none that existed), no change of a
\* batch quantity or of the product quantity.
C14_AddNonPositiveFails ==
    (ret.op = "add" /\ ret.q <= 0) =>
        /\ ~ret.ok
        /\ stocks = ret.pre.stocks
        /\ movements = ret.pre.movements
        /\ dbQty = ret.pre.qty

\* a rejected addition naming a batch the product did not have, made
\* through an instance whose quantity differs from the stored one (so that
\* creating the batch wrote the product quantity before the call failed)
C14_Witness ==
    /\ ret.op = "add"
    /\ ret.q <= 0
    /\ AddTarget = NoStock
    /\ ret.pre.self # ret.pre.qty

\* C15: after a successful adjust_stock(target) the stored product quantity
\* equals target, whatever calls preceded it on the Product instance.
C15_AdjustReachesTarget ==
    (ret.op = "adjust" /\ ret.ok) => dbQty = ret.q

\* the batch the ADJUST entry of a positive adjustment belongs to: the most
\* recently created active batch, or the batch created for it
AdjustTarget ==
    IF RecentActive(ret.pre.stocks) # NoStock
    THEN RecentActive(ret.pre.stocks)
    ELSE Len(ret.pre.stocks) + 1

\* C16: adjust_stock(target) with target above the product's current
\* quantity persists exactly one entry, ADJUST with quantity
\* target - current for the most recently created active batch (or for a
\* batch created with quantity 0 when there is none), and returns it.
C16_PositiveAdjustOneEntry ==
    (ret.op = "adjust" /\ ret.q > ret.pre.qty) =>
        /\ ret.ok
        /\ ret.created = <<[type |-> "ADJUST", qty |-> ret.q - ret.pre.qty,
                            stock |-> AdjustTarget]>>
        /\ movements = ret.pre.movements \o ret.created
        /\ ret.returned = ret.created
        /\ Len(stocks) = IF RecentActive(ret.pre.stocks) # NoStock
                         THEN Len(ret.pre.stocks) ELSE Len(ret.pre.stocks) + 1

\* C17: adjust_stock(target) with 0 <= target < current quantity persists
\* only OUT entries, taken in FIFO order, with magnitudes summing to
\* current - target, and returns None.
C17_NegativeAdjustOutEntries ==
    (ret.op = "adjust" /\ 0 <= ret.q /\ ret.q < ret.pre.qty) =>
        /\ ret.ok
        /\ ret.returned = <<>>
        /\ movements = ret.pre.movements \o ret.created
        /\ \A k \in 1..Len(ret.created) : ret.created[k].type = "OUT"
        /\ SumMagnitudes(ret.created) = ret.pre.qty - ret.q
        /\ ret.created = RemoveStock(ret.pre, ret.pre.qty - ret.q, TRUE, nullsFirst).created

\* C18: adjust_stock(target) with target equal to the current quantity
\* returns None and changes nothing: no entry, no batch created or
\* modified, product quantity unchanged.
C18_ZeroAdjustNoOp ==
    (ret.op = "adjust" /\ ret.q = ret.pre.qty) =>
        /\ ret.returned = <<>>
        /\ movements = ret.pre.movements
        /\ stocks = ret.pre.stocks
        /\ dbQty = ret.pre.qty

\* C19: update_quantity_from_stock called twice in a row: the second call
\* leaves the quantity (stored and held by the instance) unchanged and
\* writes nothing.
C19_RecomputeIdempotent ==
    (ret.op = "update" /\ ret.prev.op = "update") =>
        /\ ~ret.wrote
        /\ dbQty = ret.pre.qty
        /\ selfQty = ret.pre.self

\* a second recomputation right after one that had to write
C19_Witness ==
    /\ ret.op = "update"
    /\ ret.prev.op = "update"
    /\ ret.prev.wrote

\* C20: after every add_stock / remove_stock / adjust_stock call, succeeding
\* or failing, the quantity held by the Product instance the call was made
\* on equals the stored product quantity.
C20_InstanceMatchesStored ==
    ret.op \in {"add", "remove", "adjust"} => selfQty = dbQty

----------------------------------------------------------------------------
(* Properties of ledger entries and batches (specifications SpecDirect and *)
(* SpecBatch)                                                              *)

\* quantity non-zero, positive for IN, negative for OUT
WellSigned(m) ==
    /\ m.qty # 0
    /\ m.type = "IN" => m.qty > 0
    /\ m.type = "OUT" => m.qty < 0

\* C21: every persisted ledger entry has a non-zero quantity, positive for
\* IN and negative for OUT; creating an entry that breaks this fails and
\* changes no batch quantity and no product quantity (nor the ledger).
C21_EntriesWellSigned ==
    /\ \A k \in 1..Len(movements) : WellSigned(movements[k])
    /\ (ret.op = "move" /\ ~WellSigned(ret.entry))
       => /\ ~ret.ok
          /\ stocks = ret.pre.stocks
          /\ dbQty = ret.pre.qty
          /\ movements = ret.pre.movements

\* a rejected entry that its batch could have absorbed: quantity 0, or an
\* OUT entry with a positive quantity
C21_Witness ==
    /\ ret.op = "move"
    /\ ret.entry.stock # NoStock
    /\ \/ ret.entry.qty = 0
       \/ ret.entry.type = "OUT" /\ ret.entry.qty > 0

RECURSIVE TotalOf(_, _)
TotalOf(stks, ids) ==
    IF ids = {} THEN 0
    ELSE LET i == CHOOSE j \in ids : TRUE
         IN stks[i].qty + TotalOf(stks, ids \ {i})

ActiveIds(stks) == {i \in 1..Len(stks) : stks[i].active}

EntryKept(k) ==
    /\ movements'[k].type = movements[k].type
    /\ movements'[k].qty = movements[k].qty
    /\ \/ movements'[k].stock = movements[k].stock
       \/ /\ ret'.op = "delete"
          /\ movements[k].stock = ret'.stock
          /\ movements'[k].stock = NoStock

LedgerStep ==
    /\ Len(movements') >= Len(movements)
    /\ \A k \in 1..Len(movements) : EntryKept(k)
    /\ ret'.op = "delete" =>
          /\ Len(movements') = Len(movements)
          /\ \A k \in 1..Len(movements) :
                movements[k].stock = ret'.stock => movements'[k].stock = NoStock

\* C22: the ledger is append-only: no add_stock, remove_stock, adjust_stock,
\* batch deactivation, batch save or batch deletion removes an entry or
\* changes the movement type or the quantity of an entry; deleting a batch
\* sets the batch reference of its entries to null and changes nothing else
\* of the ledger.
C22_LedgerAppendOnly == [][LedgerStep]_vars

C22_Witness ==
    /\ ret.op = "delete"
    /\ \E k \in 1..Len(movements) :
          /\ ret.pre.movements[k].stock = ret.stock
          /\ movements[k].stock = NoStock
          /\ movements[k].type = "IN"

C24_BatchSaveKeepsQuantity ==
    (ret.op \in {"create", "save", "delete", "view"} /\ ret.ok)
       => dbQty = TotalOf(stocks, ActiveIds(stocks))

----------------------------------------------------------------------------
(* Properties of Product.save (specification SpecProduct) *)

\* the Stock rows of a product of SpecProduct: none
NoBatches == <<>>

\* C25: the stored quantity of a product is never a caller-supplied value:
\* after creating a product, and after a later save in which the caller set
\* the quantity field, it equals the sum of the quantities of the product's
\* active batches.
C25_QuantityNeverCallerSupplied ==
    (prodRet.op \in {"create", "save"} /\ prodRet.ok)
       => products[prodRet.row].quantity = TotalOf(NoBatches, ActiveIds(NoBatches))

\* C26: a product created with quantity q and pack size p, and no batches,
\* reports available_stock = q * p.
C26_AvailableStockOfNewProduct ==
    (prodRet.op = "create" /\ prodRet.ok)
       => AvailableStock(prodRet.instance)
             = prodRet.given.quantity * prodRet.given.pack_size

\* C27: creating a product without an SKU always succeeds, and the SKU it
\* is given differs from the SKU of every other stored product, generated
\* or supplied by a caller.
C27_AutoSkuUnique ==
    (prodRet.op = "create" /\ prodRet.given.sku = <<>>)
       => /\ prodRet.ok
          /\ \A j \in (1..Len(products)) \ {prodRet.row} :
                products[j].sku # products[prodRet.row].sku

\* C28: Product.save never changes a non-empty SKU: the instance and the
\* stored row keep the SKU the caller supplied at creation, a later save
\* leaves it unchanged, and no prefix counter is created or incremented.
C28_SaveKeepsSku ==
    (prodRet.op \in {"create", "save"} /\ prodRet.given.sku # <<>>)
       => /\ prodRet.instance.sku = prodRet.given.sku
          /\ seqs = prodRet.seqs
          /\ prodRet.ok => products[prodRet.row].sku = prodRet.given.sku
          /\ prodRet.op = "save" =>
                prodRet.given.sku = prodRet.before[prodRet.row].sku

\* a product created with a caller-supplied SKU, saved later with another
\* quantity
C28_Witness ==
    /\ prodRet.op = "save"
    /\ prodRet.ok
    /\ prodRet.given.sku = ManualSku
    /\ products[prodRet.row].quantity # prodRet.before[prodRet.row].quantity

\* str.split(c)
RECURSIVE SplitOnFrom(_, _, _, _)
SplitOnFrom(str, c, part, parts) ==
    IF str = <<>> THEN Append(parts, part)
    ELSE IF Head(str) = c
         THEN SplitOnFrom(Tail(str), c, <<>>, Append(parts, part))
         ELSE SplitOnFrom(Tail(str), c, Append(part, Head(str)), parts)

SplitOn(str, c) == SplitOnFrom(str, c, <<>>, <<>>)

\* C29: every SKU that a successful sequence allocation of generate_sku
\* assigns to a product is 12 characters long and has exactly three
\* '-'-separated parts, of lengths 3, 3 and 4, the last one made of digits.
C29_SkuFixedWidth ==
    (prodRet.op = "create" /\ prodRet.given.sku = <<>>)
       => LET sku == prodRet.instance.sku
              parts == SplitOn(sku, "-")
          IN /\ Len(sku) = 12
             /\ Len(parts) = 3
             /\ Len(parts[1]) = 3
             /\ Len(parts[2]) = 3
             /\ Len(parts[3]) = 4
             /\ \A i \in 1..Len(parts[3]) : parts[3][i] \in DigitChars

----------------------------------------------------------------------------
(* Properties of the name prefixes (specification SpecPrefix) *)

\* the first three characters of: the first word's first three characters
\* followed by the second word's first two, uppercased, followed by "XXX"
ExpectedPrefix(name) ==
    LET w == Split(name)
        raw == Upper(Take(w[1], 3) \o (IF Len(w) >= 2 THEN Take(w[2], 2) ELSE <<>>))
    IN [i \in 1..3 |-> IF i <= Len(raw) THEN raw[i] ELSE "X"]

\* C30: the prefix derived from a name is exactly 3 characters, the
\* uppercased first up-to-3 characters of its first word followed by the
\* uppercased first up-to-2 of its second word, cut or padded with 'X' to 3;
\* ("Electronics", "Smartphone") gives "ELE-SMA", ("A", "B") gives
\* "AXX-BXX"; generate_sku and generate_preview_sku derive the same prefix.
C30_PrefixThreeChars ==
    skuRet.op \in {"preview", "generate"} =>
       /\ Take(skuRet.sku, 8)
             = ExpectedPrefix(skuRet.cat) \o <<"-">> \o ExpectedPrefix(skuRet.prod)
                  \o <<"-">>
       /\ Len(NamePrefix(skuRet.cat)) = 3 /\ Len(PreviewNamePrefix(skuRet.prod)) = 3
       /\ (skuRet.cat = Electronics /\ skuRet.prod = Smartphone)
             => Take(skuRet.sku, 7) = <<"E","L","E","-","S","M","A">>
       /\ (skuRet.cat = <<"A">> /\ skuRet.prod = <<"B">>)
             => Take(skuRet.sku, 7) = <<"A","X","X","-","B","X","X">>
       /\ (skuRet.prev.op \in {"preview", "generate"}
           /\ skuRet.prev.cat = skuRet.cat /\ skuRet.prev.prod = skuRet.prod)
             => Take(skuRet.prev.sku, 7) = Take(skuRet.sku, 7)

\* generate_sku after a preview for the same two-word names
C30_Witness ==
    /\ skuRet.op = "generate"
    /\ skuRet.prev.op = "preview"
    /\ skuRet.cat = TvBox /\ skuRet.prev.cat = TvBox
    /\ skuRet.prod = GoPro /\ skuRet.prev.prod = GoPro
    /\ Take(skuRet.sku, 7) = <<"T","V","B","-","G","O","P">>

----------------------------------------------------------------------------
(* Properties of concurrent allocations for different prefixes             *)
(* (specification SpecSkuConc)                                             *)

\* no other transaction holds the counter row of the prefix of p
OwnPrefixFree(p) ==
    \A q \in Procs \ {p} :
        proc[q].pc \in {"locked", "saved"}
           => SkuPrefix(proc[q].cat, proc[q].prod) # SkuPrefix(proc[p].cat, proc[p].prod)

----------------------------------------------------------------------------
(* Properties of the counters (specification SpecSku) *)

\* int(digits)
RECURSIVE ToNumber(_)
ToNumber(digits) ==
    IF digits = <<>> THEN 0
    ELSE 10 * ToNumber(SubSeq(digits, 1, Len(digits) - 1))
         + (CHOOSE d \in 0..9 : Digits[d + 1] = digits[Len(digits)])

\* int(sku.split('-')[-1])
SkuNumber(sku) == ToNumber(SplitOn(sku, "-")[Len(SplitOn(sku, "-"))])

\* C32: no counter ever decreases or disappears; a successful allocation
\* raises the counter of its prefix by exactly 1 (to 1 for a new prefix),
\* returns that value and leaves the other counters alone; a failed
\* allocation and a preview change no counter.
C32_CounterMonotonic ==
    /\ \A pre \in DOMAIN skuRet.pre : HasRow(seqs, pre) /\ seqs[pre] >= skuRet.pre[pre]
    /\ (skuRet.op = "generate" /\ ~skuRet.failed) =>
          LET pre == SkuPrefix(skuRet.cat, skuRet.prod)
          IN /\ seqs[pre] = CounterOf(skuRet.pre, pre) + 1
             /\ SkuNumber(skuRet.sku) = seqs[pre]
             /\ DOMAIN seqs = DOMAIN skuRet.pre \cup {pre}
             /\ \A other \in DOMAIN skuRet.pre \ {pre} : seqs[other] = skuRet.pre[other]
    /\ (skuRet.op = "preview" \/ (skuRet.op = "generate" /\ skuRet.failed)) =>
          seqs = skuRet.pre

\* the first allocation for a new prefix, after a failed allocation for it,
\* while another prefix has a counter
C32_Witness ==
    /\ skuRet.op = "generate" /\ ~skuRet.failed
    /\ skuRet.prev.op = "generate" /\ skuRet.prev.failed
    /\ skuRet.prev.cat = skuRet.cat /\ skuRet.prev.prod = skuRet.prod
    /\ ~HasRow(skuRet.pre, SkuPrefix(skuRet.cat, skuRet.prod))
    /\ skuRet.pre # NoRows
    /\ SkuNumber(skuRet.sku) = 1

----------------------------------------------------------------------------
(* Properties of Product.clean (specification SpecClean) *)

\* C33: Product.clean accepts a price tuple exactly when all four prices
\* are >= 0 and unit_cost <= least_selling_price <= wholesale_price <=
\* retail_price, and raises a validation error for every other tuple.
C33_CleanAcceptsOrderedPrices ==
    prodRet.op = "clean" =>
       (prodRet.ok <=>
           /\ \A i \in 1..4 : prodRet.prices[i] >= 0
           /\ \A i \in 1..3 : prodRet.prices[i] <= prodRet.prices[i + 1])

\* non-negative prices with least_selling_price below unit_cost and the
\* other two in order, rejected
C33_Witness ==
    /\ prodRet.op = "clean"
    /\ ~prodRet.ok
    /\ \A i \in 1..4 : prodRet.prices[i] >= 0
    /\ prodRet.prices[2] < prodRet.prices[1]
    /\ prodRet.prices[2] <= prodRet.prices[3]
    /\ prodRet.prices[3] <= prodRet.prices[4]

----------------------------------------------------------------------------
(* Properties of unit costs and batch details (specification SpecCost) *)

\* C34: for every ledger entry whose unit_cost is present, 0 included,
\* total_value is |quantity| * unit_cost; total_value is absent only when
\* unit_cost is absent.
C34_TotalValue ==
    \A k \in 1..Len(movements) :
       /\ movements[k].unit_cost # NoCost
             => TotalValue(movements[k]) = Abs(movements[k].qty) * movements[k].unit_cost
       /\ TotalValue(movements[k]) = NoValue => movements[k].unit_cost = NoCost

\* the batch with the batch number of the last call, before the call
C39_Found == FindBatch(ret.pre.stocks, ret.batch_no)

\* C39: add_stock on a batch number the product already has changes only
\* that batch's quantity: its unit_cost, expiry_date, location and
\* is_active stay as they were, whatever the call supplies, no other batch
\* changes, and the new IN entry records the unit_cost given in the call.
C39_ExistingBatchKeepsDetails ==
    (ret.op = "add" /\ ret.ok /\ C39_Found # NoStock) =>
       /\ Len(stocks) = Len(ret.pre.stocks)
       /\ \A id \in 1..Len(stocks) : id # C39_Found => stocks[id] = ret.pre.stocks[id]
       /\ stocks[C39_Found] = [ret.pre.stocks[C39_Found] EXCEPT !.qty = @ + ret.q]
       /\ Len(movements) = Len(ret.pre.movements) + 1
       /\ movements[Len(movements)] =
             [type |-> "IN", qty |-> ret.q, stock |-> C39_Found,
              unit_cost |-> ret.entry.unit_cost]

\* stock added to a deactivated batch with another cost, expiry date and
\* location than the batch has
C39_Witness ==
    /\ ret.op = "add" /\ ret.ok /\ C39_Found # NoStock
    /\ ~stocks[C39_Found].active
    /\ stocks[C39_Found].unit_cost # ret.entry.unit_cost
    /\ stocks[C39_Found].expiry # ret.entry.expiry
    /\ stocks[C39_Found].location # ret.entry.location
    /\ movements[Len(movements)].unit_cost = ret.entry.unit_cost

----------------------------------------------------------------------------
(* Properties of removals and batch quantities (specification            *)
(* SpecTwoBatches)                                                       *)

\* the stock the eligible batches created after batch j held before the call
RECURSIVE C35_NewerStock(_, _)
C35_NewerStock(j, n) ==
    IF n <= j THEN 0
    ELSE (IF Eligible(n) THEN ret.pre.stocks[n].qty ELSE 0) + C35_NewerStock(j, n - 1)

C35_Min(a, b) == IF a < b THEN a ELSE b

\* what a newest-first greedy removal of ret.q takes from batch j
C35_Taken(j) ==
    LET newer == C35_NewerStock(j, Len(ret.pre.stocks))
        remaining == IF ret.q > newer THEN ret.q - newer ELSE 0
    IN IF Eligible(j) THEN C35_Min(remaining, ret.pre.stocks[j].qty) ELSE 0

\* C35: with use_fifo=false a successful remove_stock takes from the
\* eligible batches (active, quantity > 0) newest first, whatever their
\* expiry dates: each batch gives min(remaining, batch quantity).
C35_LifoOrder ==
    (ret.op = "remove" /\ ret.ok /\ ~ret.fifo) =>
        /\ Len(stocks) = Len(ret.pre.stocks)
        /\ \A j \in 1..Len(stocks) :
              stocks[j].qty = ret.pre.stocks[j].qty - C35_Taken(j)

\* a LIFO removal that drew on the newest batch only, although the older
\* batch expires first and still holds stock
C35_Witness ==
    /\ ret.op = "remove" /\ ret.ok /\ ~ret.fifo
    /\ Len(stocks) = 2
    /\ Eligible(1) /\ Eligible(2)
    /\ ClaimedBefore(1, 2)
    /\ stocks[2].qty < ret.pre.stocks[2].qty
    /\ stocks[1].qty = ret.pre.stocks[1].qty
    /\ stocks[1].qty > 0

\* the sum of the signed quantities of the entries that reference batch id
RECURSIVE C37_EntrySum(_, _)
C37_EntrySum(ms, id) ==
    IF ms = <<>> THEN 0
    ELSE (IF Head(ms).stock = id THEN Head(ms).qty ELSE 0) + C37_EntrySum(Tail(ms), id)

\* C37: after any sequence of add_stock, remove_stock and adjust_stock
\* calls, the stored quantity of every batch (each was created by add_stock
\* or by adjust_stock) is the sum of the signed quantities of the ledger
\* entries that reference it.
C37_BatchQuantityIsEntrySum ==
    \A id \in 1..Len(stocks) : stocks[id].qty = C37_EntrySum(movements, id)

\* a batch created by adjust_stock that a later call drew on, next to a
\* batch created by add_stock
C37_Witness ==
    /\ ret.ok
    /\ \E i, j \in 1..Len(stocks) :
          /\ stocks[i].batch_no = AdjBatchNo
          /\ stocks[j].batch_no # AdjBatchNo
          /\ \E k \in 1..Len(movements) :
                movements[k].stock = i /\ movements[k].qty < 0
          /\ \E k \in 1..Len(movements) :
                movements[k].stock = j /\ movements[k].qty > 0

----------------------------------------------------------------------------
(* Properties of add_stock without a batch number (specification         *)
(* SpecDefaultBatch)                                                     *)

\* C36: add_stock called without batch_no uses a batch number no batch of
\* the product has, so the call creates a new batch whose quantity after
\* the call is the added quantity, however soon after another such call.
C36_DefaultBatchIsNew ==
    (ret.op = "add" /\ ret.ok /\ IsDefaultBatchNo(ret.batch_no)) =>
       /\ FindBatch(ret.pre.stocks, ret.batch_no) = NoStock
       /\ Len(stocks) = Len(ret.pre.stocks) + 1
       /\ stocks[ret.stock].qty = ret.q

----------------------------------------------------------------------------
(* Properties of saving ledger entries again (specification SpecResave) *)

\* C38: saving an already persisted ledger entry a second time does not
\* apply its quantity again: every batch quantity and the product quantity
\* are after the second save what they were before it.
C38_ResaveChangesNothing ==
    ret.op = "resave" =>
       /\ \A id \in 1..Len(stocks) : stocks[id].qty = ret.pre.stocks[id].qty
       /\ dbQty = ret.pre.qty

----------------------------------------------------------------------------
(* Properties of adjust_stock with a negative target (specification      *)
(* SpecBatch)                                                            *)

\* C40: adjust_stock with a negative target quantity fails and leaves every
\* batch quantity, the product quantity and the ledger entries unchanged.
C40_NegativeTargetFails ==
    (ret.op = "adjust" /\ ret.q < 0) =>
       /\ ~ret.ok
       /\ stocks = ret.pre.stocks
       /\ dbQty = ret.pre.qty
       /\ movements = ret.pre.movements

====
